---- MODULE Spec2Model ----
(***************************************************************************)
(* A model of the rust_state_machine runtime: the system, balances and     *)
(* proof_of_existence pallets (src/src/system.rs, balances.rs,             *)
(* proof_of_existence.rs) and the Runtime that executes blocks of          *)
(* extrinsics against them (src/src/main.rs).  The bodies of               *)
(* Runtime::execute_block and Runtime::dispatch are generated by           *)
(* #[macros::runtime]; they are modelled from section 4.4 and 4.5 of the   *)
(* specification.                                                          *)
(***************************************************************************)
EXTENDS Integers, Sequences, FiniteSets, TLC

\* ------------------------------------------------------------------ bounds
\* Width of the Balance type in the model (u128 in main.rs, scaled down).
BalanceBits == 2
\* Number of execute_block calls explored.
MaxBlocks == 2
\* Largest number of extrinsics in one block.
MaxBlockLen == 3
\* Total number of extrinsics in the replayed blocks explored.
MaxExtrinsics == 3

\* ------------------------------------------------------------------ types
\* types::AccountId values (main.rs:54-56).
Accounts == {"alice", "bob", "charlie"}
\* The accounts that sign extrinsics (main.rs:68, 101); the third account
\* only receives.
Callers == {"alice", "bob"}
\* types::Content values.
Contents == {"hello", "world"}
\* Largest value of types::Balance.
MAX == 2 ^ BalanceBits - 1
\* Amounts used as arguments of set_balance and transfer.
Amounts == {1, MAX}
\* Amounts used to seed accounts before the first block.
Seeds == {MAX}
\* Option::None of a checked arithmetic operation.
None == -1
\* Option::None of get_claim.
NoOwner == "nobody"

\* DispatchResult values (support.rs:22): Ok(()) and the Err strings.
Ok == "Ok"
ErrNotEnoughFunds == "Not enough funds."
ErrOverflow == "Overflow"
ErrAlreadyClaimed == "this content is already claimed"
ErrClaimNotFound == "claim does not exist"
ErrNotOwner == "this content is owned by someone else"
ErrBlockNumber == "block number does not match what is expected"

\* ------------------------------------------------------------- BTreeMap
\* BTreeMap::insert
Insert(m, k, v) == [x \in (DOMAIN m) \cup {k} |-> IF x = k THEN v ELSE m[x]]
\* BTreeMap::remove
Remove(m, k) == [x \in (DOMAIN m) \ {k} |-> m[x]]
\* BTreeMap::new
EmptyMap == [x \in {} |-> 0]

\* ------------------------------------------------------------ system.rs
\* inc_block_number variant that leaves the counter where it is.
inc_block_number_noop(bn) == bn

\* inc_block_number variant that adds two.
inc_block_number_twice(bn) == bn + 2

inc_block_number(bn) == bn + 1

\* inc_nonce variant that counts from one when the account has no entry.
inc_nonce_default_one(n, who) ==
    IF who \in DOMAIN n THEN Insert(n, who, n[who] + 1) ELSE Insert(n, who, 2)

\* inc_nonce variant that only updates an entry that already exists.
inc_nonce_existing(n, who) ==
    IF who \in DOMAIN n THEN Insert(n, who, n[who] + 1) ELSE n

\* inc_nonce variant that loses the stored nonce of the account.
inc_nonce_reset(n, who) == Insert(n, who, 1)

inc_nonce(n, who) ==
    LET old == IF who \in DOMAIN n THEN n[who] ELSE 0
        new_nonce == old + 1
    IN  Insert(n, who, new_nonce)

\* ---------------------------------------------------------- balances.rs
set_balance(bal, who, amount) == Insert(bal, who, amount)

balance(bal, who) == IF who \in DOMAIN bal THEN bal[who] ELSE 0

checked_sub(a, b) == IF a - b >= 0 THEN a - b ELSE None

\* Addition that wraps around at MAX instead of reporting the overflow.
checked_add_wrapping(a, b) == (a + b) % (MAX + 1)

checked_add(a, b) == IF a + b <= MAX THEN a + b ELSE None

\* transfer variant that tests the receiver's overflow before the caller's funds.
transfer_overflow_first(bal, caller, to, amount) ==
    LET caller_balance == balance(bal, caller)
        to_balance == balance(bal, to)
        new_caller_balance == checked_sub(caller_balance, amount)
        new_to_balance == checked_add(to_balance, amount)
    IN  IF new_to_balance = None
        THEN [res |-> ErrOverflow, balances |-> bal]
        ELSE IF new_caller_balance = None
        THEN [res |-> ErrNotEnoughFunds, balances |-> bal]
        ELSE [res |-> Ok,
              balances |-> Insert(Insert(bal, caller, new_caller_balance),
                                  to, new_to_balance)]

\* transfer variant that writes the caller's balance before the overflow check.
transfer_partial(bal, caller, to, amount) ==
    LET caller_balance == balance(bal, caller)
        to_balance == balance(bal, to)
        new_caller_balance == checked_sub(caller_balance, amount)
        new_to_balance == checked_add(to_balance, amount)
    IN  IF new_caller_balance = None
        THEN [res |-> ErrNotEnoughFunds, balances |-> bal]
        ELSE IF new_to_balance = None
        THEN [res |-> ErrOverflow,
              balances |-> Insert(bal, caller, new_caller_balance)]
        ELSE [res |-> Ok,
              balances |-> Insert(Insert(bal, caller, new_caller_balance),
                                  to, new_to_balance)]

\* transfer variant that debits the caller without crediting the receiver.
transfer_no_credit(bal, caller, to, amount) ==
    LET caller_balance == balance(bal, caller)
        to_balance == balance(bal, to)
        new_caller_balance == checked_sub(caller_balance, amount)
        new_to_balance == checked_add(to_balance, amount)
    IN  IF new_caller_balance = None
        THEN [res |-> ErrNotEnoughFunds, balances |-> bal]
        ELSE IF new_to_balance = None
        THEN [res |-> ErrOverflow, balances |-> bal]
        ELSE [res |-> Ok,
              balances |-> Insert(Insert(bal, caller, new_caller_balance),
                                  to, to_balance)]

transfer(bal, caller, to, amount) ==
    LET caller_balance == balance(bal, caller)
        to_balance == balance(bal, to)
        new_caller_balance == checked_sub(caller_balance, amount)
        new_to_balance == checked_add(to_balance, amount)
    IN  IF new_caller_balance = None
        THEN [res |-> ErrNotEnoughFunds, balances |-> bal]
        ELSE IF new_to_balance = None
        THEN [res |-> ErrOverflow, balances |-> bal]
        ELSE [res |-> Ok,
              balances |-> Insert(Insert(bal, caller, new_caller_balance),
                                  to, new_to_balance)]

\* ------------------------------------------------- proof_of_existence.rs
get_claim(cl, claim) == IF claim \in DOMAIN cl THEN cl[claim] ELSE NoOwner

\* create_claim variant that accepts a repeated claim by the current owner.
create_claim_owner_ok(cl, caller, claim) ==
    IF claim \in DOMAIN cl /\ cl[claim] # caller
    THEN [res |-> ErrAlreadyClaimed, claims |-> cl]
    ELSE [res |-> Ok, claims |-> Insert(cl, claim, caller)]

\* create_claim variant without the contains_key check.
create_claim_overwrite(cl, caller, claim) ==
    [res |-> Ok, claims |-> Insert(cl, claim, caller)]

create_claim(cl, caller, claim) ==
    IF claim \in DOMAIN cl
    THEN [res |-> ErrAlreadyClaimed, claims |-> cl]
    ELSE [res |-> Ok, claims |-> Insert(cl, claim, caller)]

\* revoke_claim variant that empties the whole map when the owner revokes.
revoke_claim_clear(cl, caller, claim) ==
    LET owner == get_claim(cl, claim)
    IN  IF owner = NoOwner
        THEN [res |-> ErrClaimNotFound, claims |-> cl]
        ELSE IF caller # owner
        THEN [res |-> ErrNotOwner, claims |-> cl]
        ELSE [res |-> Ok, claims |-> EmptyMap]

\* revoke_claim variant that reports success without removing the entry.
revoke_claim_keep(cl, caller, claim) ==
    LET owner == get_claim(cl, claim)
    IN  IF owner = NoOwner
        THEN [res |-> ErrClaimNotFound, claims |-> cl]
        ELSE IF caller # owner
        THEN [res |-> ErrNotOwner, claims |-> cl]
        ELSE [res |-> Ok, claims |-> cl]

\* revoke_claim variant without the ownership check.
revoke_claim_anyone(cl, caller, claim) ==
    LET owner == get_claim(cl, claim)
    IN  IF owner = NoOwner
        THEN [res |-> ErrClaimNotFound, claims |-> cl]
        ELSE [res |-> Ok, claims |-> Remove(cl, claim)]

revoke_claim(cl, caller, claim) ==
    LET owner == get_claim(cl, claim)
    IN  IF owner = NoOwner
        THEN [res |-> ErrClaimNotFound, claims |-> cl]
        ELSE IF caller # owner
        THEN [res |-> ErrNotOwner, claims |-> cl]
        ELSE [res |-> Ok, claims |-> Remove(cl, claim)]

\* ------------------------------------------------------------ RuntimeCall
\* The variants of RuntimeCall with their arguments.
TransferCall(to, amount) ==
    [pallet |-> "balances", name |-> "transfer", to |-> to, amount |-> amount]
CreateClaimCall(claim) ==
    [pallet |-> "proof_of_existence", name |-> "create_claim", claim |-> claim]
RevokeClaimCall(claim) ==
    [pallet |-> "proof_of_existence", name |-> "revoke_claim", claim |-> claim]

Calls ==
    {TransferCall(to, amount) : to \in Accounts, amount \in Amounts}
    \cup {CreateClaimCall(c) : c \in Contents}
    \cup {RevokeClaimCall(c) : c \in Contents}

\* dispatch variant that charges the caller one unit for a stored claim.
dispatch_claim_fee(bal, cl, caller, call) ==
    IF call.pallet = "balances"
    THEN LET r == transfer(bal, caller, call.to, call.amount)
         IN  [res |-> r.res, balances |-> r.balances, claims |-> cl]
    ELSE IF call.name = "create_claim"
    THEN LET r == create_claim(cl, caller, call.claim)
         IN  [res |-> r.res,
              balances |-> IF r.res = Ok /\ balance(bal, caller) > 0
                           THEN Insert(bal, caller, balance(bal, caller) - 1)
                           ELSE bal,
              claims |-> r.claims]
    ELSE LET r == revoke_claim(cl, caller, call.claim)
         IN  [res |-> r.res, balances |-> bal, claims |-> r.claims]

\* dispatch variant that routes every proof_of_existence call to create_claim.
dispatch_misrouted(bal, cl, caller, call) ==
    IF call.pallet = "balances"
    THEN LET r == transfer(bal, caller, call.to, call.amount)
         IN  [res |-> r.res, balances |-> r.balances, claims |-> cl]
    ELSE LET r == create_claim(cl, caller, call.claim)
         IN  [res |-> r.res, balances |-> bal, claims |-> r.claims]

\* Runtime::dispatch: routes the call to the pallet method and returns its
\* result unchanged; the pallets it does not address keep their state.
dispatch(bal, cl, caller, call) ==
    IF call.pallet = "balances"
    THEN LET r == transfer(bal, caller, call.to, call.amount)
         IN  [res |-> r.res, balances |-> r.balances, claims |-> cl]
    ELSE IF call.name = "create_claim"
    THEN LET r == create_claim(cl, caller, call.claim)
         IN  [res |-> r.res, balances |-> bal, claims |-> r.claims]
    ELSE LET r == revoke_claim(cl, caller, call.claim)
         IN  [res |-> r.res, balances |-> bal, claims |-> r.claims]

\* ---------------------------------------------------------------- state
VARIABLES
    block_number,   \* system::Pallet.block_number
    nonce,          \* system::Pallet.nonce
    balances,       \* balances::Pallet.balances
    claims,         \* proof_of_existence::Pallet.claims
    pc,             \* "idle", or "loop" inside execute_block's for loop
    block,          \* the block handed to execute_block
    i,              \* enumerate() index of the next extrinsic of the block
    result,         \* what the last execute_block returned
    outcomes,       \* dispatch results of the current block, in order
    last,           \* the extrinsic dispatched last and its result
    expected,       \* the height execute_block expected when it was called
    nblocks,        \* number of execute_block calls so far
    in_blocks,      \* per account: extrinsics with that caller in the blocks
                    \* of the expected height, the ones that are replayed
    reached         \* per account: extrinsics with that caller the loop reached

vars == <<block_number, nonce, balances, claims, pc, block, i, result,
          outcomes, last, expected, nblocks, in_blocks, reached>>

frame == <<pc, block, i, result, outcomes, last, expected, nblocks,
           in_blocks, reached>>

NoIndex == -1
NoCall == [pallet |-> "none", name |-> "none"]
NoExtrinsic == [caller |-> NoOwner, call |-> NoCall, res |-> Ok]
NoResult == [status |-> "none", block_number |-> 0, index |-> NoIndex, reason |-> ""]
OkResult(h) == [status |-> "ok", block_number |-> h, index |-> NoIndex, reason |-> Ok]
\* The failure execute_block returns: block number, extrinsic index, reason.
ErrResult(h, idx, e) == [status |-> "err", block_number |-> h, index |-> idx, reason |-> e]

\* Sequences of callers of a block of at most n extrinsics.
CallerSeqs(n) == UNION {[1..k -> Callers] : k \in 0..n}
\* Block heights a caller of execute_block may declare when the block number
\* is bn: the height of the last block again, the next one, or one too far.
Heights(bn) == {bn, bn + 1, bn + 2}
\* The smaller of two numbers.
Min(a, b) == IF a <= b THEN a ELSE b

Count(callers, a) == Cardinality({k \in DOMAIN callers : callers[k] = a})

RECURSIVE Total(_, _)
\* Sum of the counter f over the accounts of S.
Total(f, S) ==
    IF S = {} THEN 0
    ELSE LET a == CHOOSE x \in S : TRUE IN f[a] + Total(f, S \ {a})

\* Runtime::new(): every pallet empty, block number zero.
Init ==
    /\ block_number = 0
    /\ nonce = EmptyMap
    /\ balances = EmptyMap
    /\ claims = EmptyMap
    /\ pc = "idle"
    /\ block = [header |-> [block_number |-> 0], callers |-> <<>>]
    /\ i = 0
    /\ result = NoResult
    /\ outcomes = <<>>
    /\ last = NoExtrinsic
    /\ expected = 1
    /\ nblocks = 0
    /\ in_blocks = [a \in Accounts |-> 0]
    /\ reached = [a \in Accounts |-> 0]

\* runtime.balances.set_balance(&who, amount): seeding before the first block.
Genesis ==
    /\ pc = "idle"
    /\ nblocks = 0
    /\ \E who \in Accounts, amount \in Seeds :
          balances' = set_balance(balances, who, amount)
    /\ UNCHANGED <<block_number, nonce, claims>>
    /\ UNCHANGED frame

\* execute_block that increments the block number first and compares the
\* declared height with the incremented counter afterwards.
BeginBlock_inc_first ==
    /\ pc = "idle"
    /\ nblocks < MaxBlocks
    /\ \E h \in Heights(block_number),
          callers \in CallerSeqs(Min(MaxBlockLen,
                                     MaxExtrinsics - Total(in_blocks, Accounts))) :
          /\ block' = [header |-> [block_number |-> h], callers |-> callers]
          /\ block_number' = inc_block_number(block_number)
          /\ IF h = block_number'
             THEN /\ pc' = "loop"
                  /\ result' = NoResult
                  /\ in_blocks' = [a \in Accounts |->
                                      in_blocks[a] + Count(callers, a)]
             ELSE /\ pc' = "idle"
                  /\ result' = ErrResult(h, NoIndex, ErrBlockNumber)
                  /\ in_blocks' = in_blocks
    /\ i' = 0
    /\ outcomes' = <<>>
    /\ expected' = block_number + 1
    /\ nblocks' = nblocks + 1
    /\ UNCHANGED <<nonce, balances, claims, last, reached>>

\* execute_block, steps 1 and 2: the declared height is checked against the
\* counter plus one; a matching block increments the block number and enters
\* the loop, any other block is rejected.
BeginBlock ==
    /\ pc = "idle"
    /\ nblocks < MaxBlocks
    /\ \E h \in Heights(block_number),
          callers \in CallerSeqs(Min(MaxBlockLen,
                                     MaxExtrinsics - Total(in_blocks, Accounts))) :
          /\ block' = [header |-> [block_number |-> h], callers |-> callers]
          /\ IF h = block_number + 1
             THEN /\ block_number' = inc_block_number(block_number)
                  /\ pc' = "loop"
                  /\ result' = NoResult
                  /\ in_blocks' = [a \in Accounts |->
                                      in_blocks[a] + Count(callers, a)]
             ELSE /\ block_number' = block_number
                  /\ pc' = "idle"
                  /\ result' = ErrResult(h, NoIndex, ErrBlockNumber)
                  /\ in_blocks' = in_blocks
    /\ i' = 0
    /\ outcomes' = <<>>
    /\ expected' = block_number + 1
    /\ nblocks' = nblocks + 1
    /\ UNCHANGED <<nonce, balances, claims, last, reached>>

\* Loop pass that logs the error of a failing extrinsic and goes on with the
\* next one.
StepExtrinsicWith_swallow(call) ==
    /\ pc = "loop"
    /\ i < Len(block.callers)
    /\ LET caller == block.callers[i + 1]
           r == dispatch(balances, claims, caller, call)
       IN  /\ nonce' = inc_nonce(nonce, caller)
           /\ reached' = [reached EXCEPT ![caller] = @ + 1]
           /\ balances' = r.balances
           /\ claims' = r.claims
           /\ outcomes' = Append(outcomes, r.res)
           /\ last' = [caller |-> caller, call |-> call, res |-> r.res]
           /\ i' = i + 1
           /\ pc' = "loop"
           /\ result' = result
    /\ UNCHANGED <<block_number, block, expected, nblocks, in_blocks>>

\* execute_block, step 3 for the extrinsic at index i: inc_nonce for the
\* caller, dispatch, and on an error return the failure at once.
StepExtrinsicWith(call) ==
    /\ pc = "loop"
    /\ i < Len(block.callers)
    /\ LET caller == block.callers[i + 1]
           r == dispatch(balances, claims, caller, call)
       IN  /\ nonce' = inc_nonce(nonce, caller)
           /\ reached' = [reached EXCEPT ![caller] = @ + 1]
           /\ balances' = r.balances
           /\ claims' = r.claims
           /\ outcomes' = Append(outcomes, r.res)
           /\ last' = [caller |-> caller, call |-> call, res |-> r.res]
           /\ IF r.res = Ok
              THEN /\ i' = i + 1
                   /\ pc' = "loop"
                   /\ result' = result
              ELSE /\ i' = i
                   /\ pc' = "idle"
                   /\ result' = ErrResult(block.header.block_number, i, r.res)
    /\ UNCHANGED <<block_number, block, expected, nblocks, in_blocks>>

StepExtrinsic == \E call \in Calls : StepExtrinsicWith(call)

\* execute_block, step 4: every extrinsic succeeded.
FinishBlock ==
    /\ pc = "loop"
    /\ i = Len(block.callers)
    /\ pc' = "idle"
    /\ result' = OkResult(block.header.block_number)
    /\ UNCHANGED <<block_number, nonce, balances, claims, block, i,
                   outcomes, last, expected, nblocks, in_blocks, reached>>

Next ==
    \/ Genesis
    \/ BeginBlock
    \/ StepExtrinsic
    \/ FinishBlock

Spec == Init /\ [][Next]_vars

\* ------------------------------------------------- the pallets on their own
\* The runtime used without blocks, as the unit tests use the pallets: the
\* embedder seeds balances and calls the pallet methods. last records the
\* method called, written as the RuntimeCall variant that carries the same
\* arguments.

\* runtime.balances.set_balance(&who, amount); every balance of the type is
\* reached from these amounts by transfers of one.
SetBalance ==
    /\ pc = "idle"
    /\ \E who \in Accounts, amount \in {0} \cup Amounts :
          balances' = set_balance(balances, who, amount)
    /\ last' = NoExtrinsic
    /\ UNCHANGED <<block_number, nonce, claims, pc, block, i, result,
                   outcomes, expected, nblocks, in_blocks, reached>>

\* balances.transfer(caller, to, amount)
Transfer ==
    /\ pc = "idle"
    /\ \E caller \in Callers, to \in Accounts, amount \in Amounts :
          LET r == transfer(balances, caller, to, amount)
          IN  /\ balances' = r.balances
              /\ last' = [caller |-> caller, call |-> TransferCall(to, amount),
                          res |-> r.res]
    /\ UNCHANGED <<block_number, nonce, claims, pc, block, i, result,
                   outcomes, expected, nblocks, in_blocks, reached>>

\* proof_of_existence.create_claim(caller, claim)
CreateClaim ==
    /\ pc = "idle"
    /\ \E caller \in Callers, claim \in Contents :
          LET r == create_claim(claims, caller, claim)
          IN  /\ claims' = r.claims
              /\ last' = [caller |-> caller, call |-> CreateClaimCall(claim),
                          res |-> r.res]
    /\ UNCHANGED <<block_number, nonce, balances, pc, block, i, result,
                   outcomes, expected, nblocks, in_blocks, reached>>

\* proof_of_existence.revoke_claim(caller, claim)
RevokeClaim ==
    /\ pc = "idle"
    /\ \E caller \in Callers, claim \in Contents :
          LET r == revoke_claim(claims, caller, claim)
          IN  /\ claims' = r.claims
              /\ last' = [caller |-> caller, call |-> RevokeClaimCall(claim),
                          res |-> r.res]
    /\ UNCHANGED <<block_number, nonce, balances, pc, block, i, result,
                   outcomes, expected, nblocks, in_blocks, reached>>

NextPallets ==
    \/ SetBalance
    \/ Transfer
    \/ CreateClaim
    \/ RevokeClaim

SpecPallets == Init /\ [][NextPallets]_vars

\* ---------------------------------------------------- the router on its own
\* runtime.dispatch(caller, call), called outside execute_block.
DirectDispatch ==
    /\ pc = "idle"
    /\ \E caller \in Callers, call \in Calls :
          LET r == dispatch(balances, claims, caller, call)
          IN  /\ balances' = r.balances
              /\ claims' = r.claims
              /\ last' = [caller |-> caller, call |-> call, res |-> r.res]
    /\ UNCHANGED <<block_number, nonce, pc, block, i, result,
                   outcomes, expected, nblocks, in_blocks, reached>>

NextDispatch ==
    \/ SetBalance
    \/ DirectDispatch

SpecDispatch == Init /\ [][NextDispatch]_vars

\* ------------------------------------------------------------ vocabulary
\* The stored nonce of an account, an absent entry counted as zero.
NonceOf(n, a) == IF a \in DOMAIN n THEN n[a] ELSE 0

\* This step is one pass of execute_block's loop: an extrinsic is dispatched.
DispatchStep == pc = "loop" /\ Len(outcomes') = Len(outcomes) + 1

\* The caller of the extrinsic the loop is about to dispatch.
CurrentCaller == block.callers[i + 1]

\* This step is a call of execute_block.
CallStep == nblocks' = nblocks + 1

\* The block handed to execute_block declared the height the engine expected.
Accepted == block.header.block_number = expected

\* execute_block has returned and no other call of it has started.
Returned == pc = "idle" /\ result.status # "none"

\* Every extrinsic of the block was dispatched and succeeded.
AllDispatchedOk ==
    /\ Len(outcomes) = Len(block.callers)
    /\ \A j \in 1..Len(outcomes) : outcomes[j] = Ok

\* The dispatch at index k (from zero) is the first one that failed.
FirstFailureAt(k) ==
    /\ k + 1 \in 1..Len(outcomes)
    /\ outcomes[k + 1] # Ok
    /\ \A j \in 1..k : outcomes[j] = Ok

\* ------------------------------------------------------------------- C1
\* C1: when the dispatch of the extrinsic at index k fails, the step keeps
\* the balances and claims the earlier extrinsics left, has raised the nonce
\* of the caller of extrinsic k by one, and ends the block: execute_block
\* returns with exactly k + 1 extrinsics dispatched, whatever the length of
\* the block.
C1_FailFastNoRollback ==
    /\ [][(DispatchStep /\ last'.res # Ok) =>
            /\ balances' = balances
            /\ claims' = claims
            /\ block_number' = block_number
            /\ NonceOf(nonce', CurrentCaller) = NonceOf(nonce, CurrentCaller) + 1
            /\ \A a \in Accounts \ {CurrentCaller} :
                  NonceOf(nonce', a) = NonceOf(nonce, a)
            /\ pc' = "idle"
            /\ result'.status = "err"
            /\ result'.index = i]_vars
    /\ [](\A k \in 0..MaxBlockLen :
            (Returned /\ result.status = "err" /\ result.index = k) =>
                /\ FirstFailureAt(k)
                /\ Len(outcomes) = k + 1)

\* A block of three extrinsics failed at index 1 after extrinsic 0 created a
\* claim: the claim is kept, both callers have a nonce, extrinsic 2 never ran.
C1_Witness ==
    /\ Returned
    /\ nblocks = 1
    /\ Len(block.callers) = 3
    /\ result.status = "err"
    /\ result.index = 1
    /\ claims # EmptyMap
    /\ Total(reached, Accounts) = 2
    /\ Total(in_blocks, Accounts) = 3

\* ------------------------------------------------------------------- C2
\* C2 as stated: whenever execute_block has returned, it returned success
\* exactly when every extrinsic of the block dispatched successfully, and a
\* failure carries the block number, the index of the first failing
\* extrinsic and that extrinsic's error.
C2_AsStated ==
    Returned =>
        /\ result.status = "ok" <=> AllDispatchedOk
        /\ result.status = "err" =>
              /\ result.block_number = block.header.block_number
              /\ FirstFailureAt(result.index)
              /\ result.reason = outcomes[result.index + 1]

\* C2 (amended): for a block that declared the expected height, execute_block
\* returns success exactly when every extrinsic of the block dispatched
\* successfully, and otherwise a failure carrying the block number, the index
\* of the first failing extrinsic and that extrinsic's error unchanged.
C2_ResultOfAcceptedBlock ==
    (Returned /\ Accepted) =>
        /\ result.status = "ok" <=> AllDispatchedOk
        /\ result.status = "err" =>
              /\ result.block_number = block.header.block_number
              /\ FirstFailureAt(result.index)
              /\ result.reason = outcomes[result.index + 1]
              /\ result.reason = last.res

\* A block [ok, fails] returned a failure at index 1.
C2_Witness ==
    /\ Returned
    /\ Accepted
    /\ Len(block.callers) = 2
    /\ outcomes = <<Ok, ErrNotEnoughFunds>>
    /\ result = ErrResult(block.header.block_number, 1, ErrNotEnoughFunds)

\* ------------------------------------------------------------------- C3
\* C3 as stated: between blocks, the nonce of every account equals the
\* number of extrinsics that have it as caller in the blocks replayed so far
\* (the blocks that declared the expected height).
C3_AsStated ==
    pc = "idle" => \A a \in Accounts : NonceOf(nonce, a) = in_blocks[a]

\* C3 (amended): the nonce of every account equals the number of extrinsics
\* with that caller that execute_block reached, successful or not: those of
\* the replayed blocks up to and including the first failing one of each
\* block; a block rejected for its height dispatches nothing.
C3_NonceCountsReached ==
    /\ \A a \in Accounts : NonceOf(nonce, a) = reached[a]
    /\ \A a \in Accounts : reached[a] <= in_blocks[a]
    /\ (Returned /\ ~Accepted) => outcomes = <<>>

\* An account was the caller of a failing and of a later successful
\* extrinsic and of one more that was never reached.
C3_Witness ==
    \E a \in Accounts :
        /\ pc = "idle"
        /\ nblocks = 2
        /\ NonceOf(nonce, a) = 2
        /\ in_blocks[a] = 3
        /\ last.res = Ok
        /\ last.caller = a

\* ------------------------------------------------------------------- C4
\* C4: a transfer that fails, with the insufficient-funds or the overflow
\* error, leaves the balances map exactly as it was.
C4_FailedTransferAtomic ==
    [][(DispatchStep /\ last'.call.name = "transfer" /\ last'.res # Ok) =>
          /\ last'.res \in {ErrNotEnoughFunds, ErrOverflow}
          /\ balances' = balances]_vars

\* A transfer passed the funds check and failed the overflow check.
C4_Witness ==
    /\ last.call.name = "transfer"
    /\ last.res = ErrOverflow
    /\ last.caller # last.call.to
    /\ balance(balances, last.caller) >= last.call.amount
    /\ balance(balances, last.call.to) + last.call.amount > MAX

\* ------------------------------------------------------------------- C5
\* C5: a successful transfer between two different accounts takes exactly
\* amount from the caller, gives exactly amount to the receiver, and leaves
\* the entry of every other account as it was.
C5_TransferMovesAmount ==
    [][(DispatchStep /\ last'.call.name = "transfer" /\ last'.res = Ok
            /\ last'.caller # last'.call.to) =>
          /\ balance(balances', last'.caller)
                = balance(balances, last'.caller) - last'.call.amount
          /\ balance(balances', last'.call.to)
                = balance(balances, last'.call.to) + last'.call.amount
          /\ balance(balances', last'.caller) + balance(balances', last'.call.to)
                = balance(balances, last'.caller) + balance(balances, last'.call.to)
          /\ \A a \in Accounts \ {last'.caller, last'.call.to} :
                /\ a \in DOMAIN balances' <=> a \in DOMAIN balances
                /\ balance(balances', a) = balance(balances, a)]_vars

\* A transfer of a positive amount to another account succeeded while a
\* third account held a balance.
C5_Witness ==
    /\ last.call.name = "transfer"
    /\ last.res = Ok
    /\ last.caller # last.call.to
    /\ last.call.amount > 0
    /\ balance(balances, last.call.to) >= last.call.amount
    /\ \E a \in DOMAIN balances : a \notin {last.caller, last.call.to}

\* ------------------------------------------------------------------- C6
\* C6: a successful transfer from an account to itself leaves the balance of
\* that account as it was.
C6_SelfTransferNoOp ==
    [][(DispatchStep /\ last'.call.name = "transfer" /\ last'.res = Ok
            /\ last'.caller = last'.call.to) =>
          balance(balances', last'.caller) = balance(balances, last'.caller)]_vars

\* ------------------------------------------------------------------- C7
\* C7: create_claim succeeds only on content that has no owner and makes the
\* caller its owner; the owner of a content is never replaced in one step, so
\* a second successful create_claim needs a revoke_claim in between.
C7_ClaimExclusive ==
    /\ [][(DispatchStep /\ last'.call.name = "create_claim" /\ last'.res = Ok) =>
            /\ last'.call.claim \notin DOMAIN claims
            /\ get_claim(claims', last'.call.claim) = last'.caller]_vars
    /\ [][\A c \in Contents :
            (c \in DOMAIN claims /\ c \in DOMAIN claims') =>
                claims'[c] = claims[c]]_vars

\* A create_claim by another account failed on content that is owned.
C7_Witness ==
    /\ last.call.name = "create_claim"
    /\ last.res = ErrAlreadyClaimed
    /\ outcomes = <<Ok, ErrAlreadyClaimed>>
    /\ get_claim(claims, last.call.claim) \notin {NoOwner, last.caller}

\* ------------------------------------------------------------------- C8
\* C8: a claim leaves the claims map only in the dispatch of a revoke_claim
\* on that content whose caller is the owner stored for it, and a
\* revoke_claim succeeds only then.
C8_RevokeByOwnerOnly ==
    /\ [][\A c \in Contents :
            (c \in DOMAIN claims /\ c \notin DOMAIN claims') =>
                /\ DispatchStep
                /\ last'.call = RevokeClaimCall(c)
                /\ last'.res = Ok
                /\ last'.caller = claims[c]]_vars
    /\ [][(DispatchStep /\ last'.call.name = "revoke_claim" /\ last'.res = Ok) =>
            get_claim(claims, last'.call.claim) = last'.caller]_vars

\* In the second block, as the third extrinsic dispatched overall, the owner
\* revoked a claim, which left the map.
C8_Witness ==
    /\ last.call.name = "revoke_claim"
    /\ last.res = Ok
    /\ nblocks = 2
    /\ Total(reached, Accounts) = 3
    /\ last.call.claim \notin DOMAIN claims

\* ------------------------------------------------------------------- C9
\* C9: a call of execute_block compares the declared height with the block
\* number plus one; on a mismatch it returns an error at once, with the block
\* number, the nonces, the balances and the claims as they were and no
\* extrinsic dispatched; only a matching block increments the block number.
C9_HeightChecked ==
    /\ [][CallStep =>
            IF block'.header.block_number = block_number + 1
            THEN /\ block_number' = block_number + 1
                 /\ pc' = "loop"
            ELSE /\ block_number' = block_number
                 /\ nonce' = nonce
                 /\ balances' = balances
                 /\ claims' = claims
                 /\ pc' = "idle"
                 /\ result'.status = "err"
                 /\ outcomes' = <<>>]_vars
    /\ []((Returned /\ ~Accepted) =>
            /\ result.status = "err"
            /\ outcomes = <<>>
            /\ block_number = expected - 1)

\* A block of two extrinsics with a wrong height was rejected after an
\* earlier block had been executed.
C9_Witness ==
    /\ Returned
    /\ ~Accepted
    /\ nblocks = 2
    /\ block_number = 1
    /\ Len(block.callers) = 2
    /\ nonce # EmptyMap

\* ------------------------------------------------------------------ C10
\* C10: the block number is zero before the first block, changes only in a
\* call of execute_block, there by exactly plus one and before any extrinsic
\* of the block is dispatched, and equals the height of the block while and
\* after that block is executed, so that it is n after n accepted blocks.
C10_BlockNumber ==
    /\ [][\/ block_number' = block_number
          \/ /\ block_number' = block_number + 1
             /\ CallStep
             /\ outcomes' = <<>>
             /\ i' = 0]_vars
    /\ [](nblocks = 0 => block_number = 0)
    /\ [](Accepted /\ nblocks > 0 => block_number = block.header.block_number)
    /\ [](block_number <= nblocks)

\* The second accepted block is in its loop after its first extrinsic.
C10_Witness ==
    /\ pc = "loop"
    /\ block_number = 2
    /\ nblocks = 2
    /\ Len(outcomes) = 1

\* ------------------------------------------------------------------ C11
\* A pallet method or dispatch called on its own: no block is being executed.
DirectStep == pc = "idle" /\ nblocks = 0 /\ last'.call # NoCall

\* C11: dispatch(caller, call) does what the pallet method of the call's
\* variant does when called with the caller and the variant's arguments: it
\* returns that method's result, the pallet's error unchanged, leaves the
\* pallets in the state that method leaves them in, and changes neither the
\* nonces nor the block number.
C11_DispatchIsMethodCall ==
    [][DirectStep =>
          LET caller == last'.caller
              call == last'.call
          IN  /\ call.name = "transfer" =>
                    LET r == transfer(balances, caller, call.to, call.amount)
                    IN  /\ last'.res = r.res
                        /\ balances' = r.balances
                        /\ claims' = claims
              /\ call.name = "create_claim" =>
                    LET r == create_claim(claims, caller, call.claim)
                    IN  /\ last'.res = r.res
                        /\ claims' = r.claims
                        /\ balances' = balances
              /\ call.name = "revoke_claim" =>
                    LET r == revoke_claim(claims, caller, call.claim)
                    IN  /\ last'.res = r.res
                        /\ claims' = r.claims
                        /\ balances' = balances
              /\ call.name \in {"transfer", "create_claim", "revoke_claim"}
              /\ nonce' = nonce
              /\ block_number' = block_number]_vars

\* dispatch returned the error of revoke_claim for a claim of someone else,
\* with transfers made before it, and no nonce and no block counted.
C11_Witness ==
    /\ last.call.name = "revoke_claim"
    /\ last.res = ErrNotOwner
    /\ get_claim(claims, last.call.claim) \notin {NoOwner, last.caller}
    /\ balance(balances, "charlie") = 1
    /\ nonce = EmptyMap
    /\ block_number = 0

\* ------------------------------------------------------------------ C12
\* C12: a transfer fails with the insufficient-funds error exactly when the
\* caller's balance, zero for an account without an entry, is below the
\* amount, whatever the receiver's balance is; in particular, when the
\* subtraction would underflow and the addition would overflow, the error is
\* the insufficient-funds one and not the overflow one.
C12_NotEnoughFundsFirst ==
    [][(DirectStep /\ last'.call.name = "transfer") =>
          LET caller_balance == balance(balances, last'.caller)
              to_balance == balance(balances, last'.call.to)
              amount == last'.call.amount
          IN  /\ last'.res = ErrNotEnoughFunds <=> caller_balance < amount
              /\ (caller_balance < amount /\ to_balance + amount > MAX) =>
                    /\ last'.res = ErrNotEnoughFunds
                    /\ last'.res # ErrOverflow]_vars

\* A caller without an entry sent one unit to a receiver holding MAX: both
\* checks would fail, and the insufficient-funds error was returned.
C12_Witness ==
    /\ last.call.name = "transfer"
    /\ last.res = ErrNotEnoughFunds
    /\ last.caller \notin DOMAIN balances
    /\ last.call.to # last.caller
    /\ balance(balances, last.call.to) = MAX
    /\ last.call.amount = 1

\* ------------------------------------------------------------------ C13
\* C13: a transfer whose caller holds at least the amount while the
\* receiver's balance plus the amount exceeds MAX fails with the overflow
\* error, and every stored balance lies in 0..MAX in every reachable state.
C13_OverflowChecked ==
    /\ [][(DirectStep /\ last'.call.name = "transfer") =>
            LET caller_balance == balance(balances, last'.caller)
                to_balance == balance(balances, last'.call.to)
                amount == last'.call.amount
            IN  (caller_balance >= amount /\ to_balance + amount > MAX) =>
                    last'.res = ErrOverflow]_vars
    /\ [](\A who \in DOMAIN balances : balances[who] \in 0..MAX)

\* A caller with enough funds sent to another account that holds MAX, and
\* the overflow error was returned.
C13_Witness ==
    /\ last.call.name = "transfer"
    /\ last.res = ErrOverflow
    /\ last.call.to # last.caller
    /\ balance(balances, last.caller) >= last.call.amount
    /\ balance(balances, last.call.to) = MAX

\* ------------------------------------------------------------------ C14
\* C14: revoke_claim on content nobody owns fails with the claim-not-found
\* error, on content owned by another account with the not-owner error, and
\* both failures leave the claims map unchanged; when the caller is the
\* owner the call succeeds, the entry is removed and the content is free,
\* the other entries staying as they were.
C14_RevokeOutcomes ==
    [][(DirectStep /\ last'.call.name = "revoke_claim") =>
          LET caller == last'.caller
              claim == last'.call.claim
              owner == get_claim(claims, claim)
          IN  /\ owner = NoOwner =>
                    /\ last'.res = ErrClaimNotFound
                    /\ claims' = claims
              /\ owner \notin {NoOwner, caller} =>
                    /\ last'.res = ErrNotOwner
                    /\ claims' = claims
              /\ owner = caller =>
                    /\ last'.res = Ok
                    /\ claim \notin DOMAIN claims'
                    /\ get_claim(claims', claim) = NoOwner
                    /\ DOMAIN claims' = DOMAIN claims \ {claim}
                    /\ \A c \in DOMAIN claims' : claims'[c] = claims[c]]_vars

\* The owner revoked one content while the other content stayed claimed by
\* the other caller.
C14_Witness ==
    /\ last.call.name = "revoke_claim"
    /\ last.res = Ok
    /\ last.call.claim \notin DOMAIN claims
    /\ \E c \in DOMAIN claims : claims[c] # last.caller

\* ------------------------------------------------------------------ C15
\* C15: create_claim on content that has an owner fails with the
\* already-claimed error and leaves the stored owner as it was, also when
\* the caller is that owner; create_claim on free content succeeds and
\* stores the caller as owner, so that get_claim returns the caller.
C15_CreateOutcomes ==
    [][(DirectStep /\ last'.call.name = "create_claim") =>
          LET caller == last'.caller
              claim == last'.call.claim
              owner == get_claim(claims, claim)
          IN  /\ owner # NoOwner =>
                    /\ last'.res = ErrAlreadyClaimed
                    /\ get_claim(claims', claim) = owner
                    /\ claims' = claims
              /\ owner = NoOwner =>
                    /\ last'.res = Ok
                    /\ get_claim(claims', claim) = caller
                    /\ claims' = Insert(claims, claim, caller)]_vars

\* The owner of a content tried to claim it again and was refused.
C15_Witness ==
    /\ last.call.name = "create_claim"
    /\ last.res = ErrAlreadyClaimed
    /\ get_claim(claims, last.call.claim) = last.caller

\* ------------------------------------------------------------------ C16
\* execute_block returned the failure of one of the block's extrinsics.
FailedInLoop == Returned /\ result.status = "err" /\ result.index # NoIndex

\* C16: the engine remains usable after a failed block: when execute_block
\* has returned a failure caused by a failing extrinsic of a block with the
\* expected height, the block number has advanced to that height, a next
\* call of execute_block can be made, and a block then declaring the block
\* number plus one is accepted: it enters the loop with the block number
\* advanced by one and the pallets as the failed block left them.
C16_UsableAfterFailure ==
    /\ [](FailedInLoop =>
            /\ Accepted
            /\ block_number = block.header.block_number
            /\ block_number = result.block_number)
    /\ []((FailedInLoop /\ nblocks < MaxBlocks) =>
            ENABLED (BeginBlock /\ pc' = "loop"))
    /\ [][(FailedInLoop /\ CallStep
             /\ block'.header.block_number = block_number + 1) =>
                /\ pc' = "loop"
                /\ block_number' = block_number + 1
                /\ result' = NoResult
                /\ i' = 0
                /\ <<nonce, balances, claims>>' = <<nonce, balances, claims>>]_vars
    /\ [][(FailedInLoop /\ CallStep
             /\ block'.header.block_number # block_number + 1) =>
                /\ pc' = "idle"
                /\ result' = ErrResult(block'.header.block_number, NoIndex,
                                       ErrBlockNumber)]_vars

\* The first block failed before its last extrinsic was reached, and the
\* second block, of height 2, has had its first extrinsic dispatched with
\* success.
C16_Witness ==
    /\ pc = "loop"
    /\ nblocks = 2
    /\ block_number = 2
    /\ Len(outcomes) = 1
    /\ last.res = Ok
    /\ Total(in_blocks, Accounts) - Len(block.callers)
         > Total(reached, Accounts) - Len(outcomes)

\* ------------------------------------------------------------------ C17
\* C17: the pallets are isolated from each other: a transfer routed by
\* dispatch, successful or failed, leaves the claims unchanged; a routed
\* create_claim or revoke_claim, successful or failed, leaves the balances
\* unchanged; the step that increments the block number changes neither
\* balances nor claims; and in a loop pass, where inc_nonce runs before
\* dispatch, balances and claims change only as the dispatched call's own
\* pallet method changes them, so inc_nonce changes neither.
C17_ModuleIsolation ==
    /\ [][(DispatchStep /\ last'.call.name = "transfer") =>
            /\ claims' = claims
            /\ balances' = transfer(balances, last'.caller, last'.call.to,
                                    last'.call.amount).balances]_vars
    /\ [][(DispatchStep /\ last'.call.name = "create_claim") =>
            /\ balances' = balances
            /\ claims' = create_claim(claims, last'.caller,
                                      last'.call.claim).claims]_vars
    /\ [][(DispatchStep /\ last'.call.name = "revoke_claim") =>
            /\ balances' = balances
            /\ claims' = revoke_claim(claims, last'.caller,
                                      last'.call.claim).claims]_vars
    /\ [][nonce' # nonce => DispatchStep]_vars
    /\ [][block_number' # block_number =>
            /\ balances' = balances
            /\ claims' = claims]_vars

\* A transfer succeeded in the second block, moving funds to its receiver,
\* while a claim made earlier was stored.
C17_Witness ==
    /\ last.call.name = "transfer"
    /\ last.res = Ok
    /\ claims # EmptyMap
    /\ balance(balances, last.call.to) > 0
    /\ nblocks = 2
    /\ block_number = 2

\* ------------------------------------------------------------------ C18
\* The block main() builds as block_2, handed to a runtime seeded as main()
\* seeds it (alice holds the seed, scaled to MAX): alice's create_claim on a
\* free content was dispatched with success, and bob's create_claim on the
\* same content was dispatched after it.
DemoBlock2Ran ==
    /\ pc = "idle"
    /\ Accepted
    /\ balances = Insert(EmptyMap, "alice", MAX)
    /\ block.callers = <<"alice", "bob">>
    /\ Len(outcomes) = 2
    /\ outcomes[1] = Ok
    /\ last.caller = "bob"
    /\ last.call.name = "create_claim"
    /\ claims = Insert(EmptyMap, last.call.claim, "alice")

\* C18: the demo driver runs to completion: execute_block succeeds for each
\* of its blocks, in particular for the block in which alice and then bob
\* call create_claim on the same content, so that main()'s
\* expect("invalid block") does not panic and the blocks after it are
\* executed.
C18_DemoCompletes == DemoBlock2Ran => result.status = "ok"

\* ------------------------------------------------------------------ C19
\* C19: create then revoke is a round trip: for every stored claims map,
\* every content c that is free in it and every account a, create_claim by
\* a on c succeeds, revoke_claim by a on c then succeeds and gives back
\* exactly the map from before the create, and after that create_claim on c
\* succeeds for every account.
C19_CreateRevokeRoundTrip ==
    \A a \in Accounts, c \in Contents :
        get_claim(claims, c) = NoOwner =>
            LET created == create_claim(claims, a, c)
                revoked == revoke_claim(created.claims, a, c)
            IN  /\ created.res = Ok
                /\ get_claim(created.claims, c) = a
                /\ revoked.res = Ok
                /\ revoked.claims = claims
                /\ \A b \in Accounts :
                      /\ create_claim(revoked.claims, b, c).res = Ok
                      /\ get_claim(create_claim(revoked.claims, b, c).claims, c) = b

\* An account that owns the other content has claimed a content and revoked
\* it again: the content is free and the other entry is still there.
C19_Witness ==
    /\ last.call.name = "revoke_claim"
    /\ last.res = Ok
    /\ get_claim(claims, last.call.claim) = NoOwner
    /\ Cardinality(DOMAIN claims) = 1
    /\ \A c \in DOMAIN claims : claims[c] = last.caller

\* ------------------------------------------------------------------ C20
\* C20: inc_nonce(account), which runs once in every loop pass for the
\* caller of the extrinsic, raises that account's nonce by exactly one,
\* counting from zero when the account has no entry, leaves the entry of
\* every other account, present or absent, and the block number as they
\* were; nothing else changes a nonce, and an account that was never the
\* caller of a reached extrinsic has no nonce entry.
C20_IncNonceFrame ==
    /\ [][DispatchStep =>
            LET who == CurrentCaller
            IN  /\ who \in DOMAIN nonce'
                /\ nonce'[who] = NonceOf(nonce, who) + 1
                /\ \A a \in Accounts \ {who} :
                      /\ a \in DOMAIN nonce' <=> a \in DOMAIN nonce
                      /\ a \in DOMAIN nonce => nonce'[a] = nonce[a]
                /\ block_number' = block_number]_vars
    /\ [][~DispatchStep => nonce' = nonce]_vars
    /\ [](\A a \in Accounts : reached[a] = 0 => a \notin DOMAIN nonce)

\* alice's nonce went from one to two in a block while bob has an entry of
\* one and charlie, never a caller, has none.
C20_Witness ==
    /\ last.caller = "alice"
    /\ NonceOf(nonce, "alice") = 2
    /\ NonceOf(nonce, "bob") = 1
    /\ DOMAIN nonce = {"alice", "bob"}
    /\ block_number = 1

====
